---- MODULE Spec2Model ----
(***************************************************************************)
(* Product catalog core: slug generation, variant-chain validation and the *)
(* Product save path.  Strings are sequences of one-character strings, so  *)
(* that slicing, searching and stripping are computed as the code computes *)
(* them.                                                                   *)
(***************************************************************************)
EXTENDS Integers, Sequences, FiniteSets, TLC

\* ---------------------------------------------------------------- bounds

\* Longest display name drawn for the normalisation runs.
MaxNameLen == 4
\* Largest SlugConfig.max_length / uuid_suffix_length drawn for the slug service.
MaxMaxLength == 9
MaxUuidLen == 2
\* Product types.
NumTypes == 2

\* ------------------------------------------------------------ characters

LowerChars == {"a", "b", "c", "d", "e", "f", "o", "p", "r", "t", "u"}
UpperChars == {"A"}
DigitChars == {"0", "1", "7"}
SpaceChars == {" "}
\* \w of the regular expressions slugify uses (after lower-casing).
WordChars == LowerChars \cup UpperChars \cup DigitChars \cup {"_"}
\* The characters uuid4().hex is made of.
HexChars == {"0", "1", "2", "3", "4", "5", "6", "7", "8", "9", "a", "b", "c", "d", "e", "f"}
\* The characters display names are drawn from: a letter, a capital, a
\* hyphen, a space, punctuation and an underscore.
NameChars == {"a", "A", "-", " ", "!", "_"}

Min(a, b) == IF a < b THEN a ELSE b
Max(a, b) == IF a > b THEN a ELSE b

\* str.lower() on one character.
LowerChar(c) == IF c = "A" THEN "a" ELSE c

\* Python's s[:n]; a negative n counts from the end.
Prefix(s, n) ==
    IF n >= 0 THEN SubSeq(s, 1, Min(n, Len(s)))
    ELSE SubSeq(s, 1, Max(0, Len(s) + n))

\* Python's s.rfind(c): the 0-based index of the last c, or -1.
RFind(s, c) ==
    LET hits == {i \in 1..Len(s) : s[i] = c}
    IN  IF hits = {} THEN -1
        ELSE (CHOOSE i \in hits : \A j \in hits : j <= i) - 1

\* Python's s.lstrip(chars) and s.rstrip(chars).
RECURSIVE LStrip(_, _)
LStrip(s, chars) ==
    IF s # <<>> /\ Head(s) \in chars THEN LStrip(Tail(s), chars) ELSE s

RECURSIVE RStrip(_, _)
RStrip(s, chars) ==
    IF s # <<>> /\ s[Len(s)] \in chars
    THEN RStrip(SubSeq(s, 1, Len(s) - 1), chars) ELSE s

\* Python's s.strip(chars).
Strip(s, chars) == RStrip(LStrip(s, chars), chars)

\* re.sub(r"[-\s]+", "-", s): every run of hyphens and spaces becomes one
\* hyphen (the first character of a run is rewritten, the others dropped).
CollapseRuns(s) ==
    LET sep(c) == c = "-" \/ c \in SpaceChars
        marked == [i \in 1..Len(s) |->
                      IF ~sep(s[i]) THEN s[i]
                      ELSE IF i > 1 /\ sep(s[i - 1]) THEN "" ELSE "-"]
        Kept(c) == c # ""
    IN  SelectSeq(marked, Kept)

\* django.utils.text.slugify (allow_unicode=False) on ASCII input: lower-case,
\* drop what is neither \w, whitespace nor hyphen, collapse hyphen/space runs
\* to one hyphen, strip hyphens and underscores at both ends.
slugify(name) ==
    LET lowered == [i \in 1..Len(name) |-> LowerChar(name[i])]
        IsKept(c) == c \in WordChars \/ c \in SpaceChars \/ c = "-"
        kept == SelectSeq(lowered, IsKept)
    IN  Strip(CollapseRuns(kept), {"-", "_"})

ProductLiteral == <<"p", "r", "o", "d", "u", "c", "t">>

\* ------------------------------------------------- services/slug_service

\* SlugConfig.suffix_length
suffix_length(cfg) == cfg.uuid_suffix_length + 1

\* _make_base without the default.
make_base_no_default(name) == slugify(name)

\* SlugService._make_base
make_base(name) ==
    IF slugify(name) = <<>> THEN ProductLiteral ELSE slugify(name)

\* _ensure_base_slug_len cutting at the allowed length, whatever stands there.
svc_ensure_base_slug_len_hard_cut(base, cfg) ==
    Prefix(base, cfg.max_length - suffix_length(cfg))

\* _ensure_base_slug_len cutting only where it finds a hyphen: a base with
\* none within the allowed length is returned whole.
svc_ensure_base_slug_len_hyphen_only(base, cfg) ==
    LET allowed_len == cfg.max_length - suffix_length(cfg)
        last_dash_in_allowed_len == RFind(Prefix(base, allowed_len), "-")
        truncated == Strip(IF last_dash_in_allowed_len # -1
                           THEN Prefix(base, last_dash_in_allowed_len)
                           ELSE base, {"-"})
    IN  IF Len(base) > allowed_len
        THEN (IF truncated = <<>> THEN ProductLiteral ELSE truncated)
        ELSE base

\* SlugService._ensure_base_slug_len
svc_ensure_base_slug_len(base, cfg) ==
    LET allowed_len == cfg.max_length - suffix_length(cfg)
        last_dash_in_allowed_len == RFind(Prefix(base, allowed_len), "-")
        truncated == Strip(IF last_dash_in_allowed_len # -1
                           THEN Prefix(base, last_dash_in_allowed_len)
                           ELSE Prefix(base, allowed_len), {"-"})
    IN  IF Len(base) > allowed_len
        THEN (IF truncated = <<>> THEN ProductLiteral ELSE truncated)
        ELSE base

\* _suffix_base_slug without the dash.
svc_suffix_base_slug_no_dash(base, token) == base \o token

\* SlugService._suffix_base_slug, with token the value of uuid4().hex[:n].
svc_suffix_base_slug(base, token) == base \o <<"-">> \o token

\* A generator that stops after three candidates.
GeneratorExhausted_after_three(yielded) == yielded >= 3

\* Whether _generate_candidate_slugs is exhausted after it yielded that many
\* candidates: its loop is "while True".
GeneratorExhausted(yielded) == FALSE

\* uuid.uuid4().hex[: uuid_suffix_length]: the tokens drawn are the constant
\* ones over the given hex digits.
TokensOver(digits, n) == {[i \in 1..n |-> d] : d \in digits}
TokenDigits == {"0", "f"}
Tokens(n) == TokensOver(TokenDigits, n)

\* SlugService.slug_exists: table is the set of rows [pk, slug] of the model
\* class; exclude_pk = 0 stands for None.
svc_slug_exists(table, slug, exclude_pk) ==
    LET queryset == {r \in table : r.slug = slug}
        filtered == IF exclude_pk # 0
                    THEN {r \in queryset : r.pk # exclude_pk}
                    ELSE queryset
    IN  filtered # {}

\* --------------------------------------------- services/validators/variant

\* Objects in memory are numbered; a heap gives each object its pk (0: not
\* saved yet, Python's None), its variant_of (an object, 0: None) and its
\* product_type_id.

\* id(obj) of CPython: an address, taken to differ from every pk in use.
IdBase == 1000

\* product.pk or id(product)
KeyOf(heap, obj) == IF heap.pk[obj] # 0 THEN heap.pk[obj] ELSE IdBase + obj

\* validate_chain before its loop.
ChainEnter(heap, product) ==
    [parent |-> heap.variant_of[product], seen |-> {}, raised |-> FALSE]

\* ChainIterate without the comparison against the product's own key.
ChainIterate_seen_only(heap, product, w) ==
    LET parent_key == KeyOf(heap, w.parent)
    IN  IF parent_key \in w.seen
        THEN [w EXCEPT !.raised = TRUE]
        ELSE [parent |-> heap.variant_of[w.parent],
              seen |-> w.seen \cup {parent_key},
              raised |-> FALSE]

\* ChainIterate without the set of parents seen.
ChainIterate_product_only(heap, product, w) ==
    IF KeyOf(heap, w.parent) = KeyOf(heap, product)
    THEN [w EXCEPT !.raised = TRUE]
    ELSE [parent |-> heap.variant_of[w.parent], seen |-> w.seen, raised |-> FALSE]

\* One iteration of the while loop of validate_chain (entered with a parent).
ChainIterate(heap, product, w) ==
    LET product_key == KeyOf(heap, product)
        parent_key == KeyOf(heap, w.parent)
    IN  IF parent_key = product_key \/ parent_key \in w.seen
        THEN [w EXCEPT !.raised = TRUE]
        ELSE [parent |-> heap.variant_of[w.parent],
              seen |-> w.seen \cup {parent_key},
              raised |-> FALSE]

\* The loop of validate_chain run to its end.
RECURSIVE ChainLoop(_, _, _)
ChainLoop(heap, product, w) ==
    IF w.raised \/ w.parent = 0 THEN w
    ELSE ChainLoop(heap, product, ChainIterate(heap, product, w))

\* VariantValidator.validate_chain: "circular" when it raises, else "ok".
validate_chain(heap, product) ==
    IF ChainLoop(heap, product, ChainEnter(heap, product)).raised
    THEN "circular" ELSE "ok"

\* validate_integrity comparing the types of saved products only.
validate_integrity_types_if_saved(heap, product) ==
    LET parent_of_product == heap.variant_of[product]
    IN  IF parent_of_product = 0 THEN "ok"
        ELSE IF heap.pk[product] = 0 \/ heap.pk[parent_of_product] = 0 THEN "ok"
        ELSE IF heap.pk[product] = heap.pk[parent_of_product] THEN "self_variant"
        ELSE IF heap.product_type_id[parent_of_product] # heap.product_type_id[product]
             THEN "type_mismatch"
        ELSE "ok"

\* validate_integrity comparing pk-or-id keys.
validate_integrity_by_key(heap, product) ==
    LET parent_of_product == heap.variant_of[product]
    IN  IF parent_of_product = 0 THEN "ok"
        ELSE IF KeyOf(heap, product) = KeyOf(heap, parent_of_product)
             THEN "self_variant"
        ELSE IF heap.product_type_id[parent_of_product] # heap.product_type_id[product]
             THEN "type_mismatch"
        ELSE "ok"

\* VariantValidator.validate_integrity: the error it raises, else "ok".
validate_integrity(heap, product) ==
    LET parent_of_product == heap.variant_of[product]
    IN  IF parent_of_product = 0 THEN "ok"
        ELSE IF /\ heap.pk[product] # 0
                /\ heap.pk[parent_of_product] # 0
                /\ heap.pk[product] = heap.pk[parent_of_product]
             THEN "self_variant"
        ELSE IF heap.product_type_id[parent_of_product] # heap.product_type_id[product]
             THEN "type_mismatch"
        ELSE "ok"

\* ------------------------------------------ services/validators/schema
\* and the SchemaValidator of _models.py

\* A schema document is kept as [type, ram, dims].  type is its top-level
\* "type": "absent", "object", "array", "object_list" (["object"]),
\* "empty_string" ("", which the Draft 7 grammar refuses) or "bogus" (a string
\* that names no JSON Schema type, refused too).  ram says whether it holds
\*   "properties": {"ram": {"type": "integer"}}, "required": ["ram"],
\* dims whether it holds
\*   "properties": {"dims": {"properties": {"w": {"type": "integer"}}}},
\*   "required": ["dims"].
\* An attributes payload is "empty" ({}), "ram_int" ({"ram": 8}), "ram_str"
\* ({"ram": "8"}), "full" ({"ram": 8, "dims": {"w": 1}}) or "bad_w"
\* ({"ram": "8", "dims": {"w": "x"}}).
SchemaTypes == {"absent", "object", "array", "object_list", "empty_string", "bogus"}
Schemas == [type : SchemaTypes, ram : BOOLEAN, dims : BOOLEAN]
Payloads == {"empty", "ram_int", "ram_str"}
Instances == Payloads \cup {"full", "bad_w"}

\* Draft7Validator.check_schema: whether it raises SchemaError.
check_schema_raises(schema) == schema.type \in {"bogus", "empty_string"}

\* bool(schema.get("type"))
TypeIsTruthy(schema) == schema.type \notin {"absent", "empty_string"}

\* The top-level test of validate_schema alone.
validate_schema_raises_type_only(schema) ==
    TypeIsTruthy(schema) /\ schema.type # "object"

\* SchemaValidator.validate_schema: TRUE when it raises.
validate_schema_raises(schema) ==
    \/ check_schema_raises(schema)
    \/ (TypeIsTruthy(schema) /\ schema.type # "object")

\* Draft7Validator(schema).iter_errors(attributes): the violations, each
\* with the path of keys to the offending value and its message.
iter_errors(schema, attributes) ==
    (IF schema.type = "array"
     THEN {[path |-> <<>>, message |-> "is not of type 'array'"]} ELSE {})
    \cup (IF schema.ram /\ attributes = "empty"
          THEN {[path |-> <<>>, message |-> "'ram' is a required property"]} ELSE {})
    \cup (IF schema.ram /\ attributes \in {"ram_str", "bad_w"}
          THEN {[path |-> <<"ram">>, message |-> "'8' is not of type 'integer'"]} ELSE {})
    \cup (IF schema.dims /\ attributes \in {"empty", "ram_int", "ram_str"}
          THEN {[path |-> <<>>, message |-> "'dims' is a required property"]} ELSE {})
    \cup (IF schema.dims /\ attributes = "bad_w"
          THEN {[path |-> <<"dims", "w">>, message |-> "'x' is not of type 'integer'"]} ELSE {})

\* ".".join([str(p) for p in err.path]) or "__all__"
RECURSIVE JoinDots(_)
JoinDots(path) ==
    IF Len(path) = 1 THEN path[1] ELSE path[1] \o "." \o JoinDots(Tail(path))

ErrorField(path) == IF path = <<>> THEN "__all__" ELSE JoinDots(path)

\* The error_dict validate_attributes builds: field -> the messages under it.
error_dict(errors) ==
    [field \in {ErrorField(err.path) : err \in errors} |->
        {err.message : err \in {e \in errors : ErrorField(e.path) = field}}]

\* validate_attributes looking at the instance first.
validate_attributes_instance_first(schema, attributes) ==
    IF iter_errors(schema, attributes) # {} THEN "attributes"
    ELSE IF validate_schema_raises(schema) THEN "schema"
    ELSE "ok"

\* SchemaValidator.validate_attributes: the error it raises, else "ok".
validate_attributes(schema, attributes) ==
    IF validate_schema_raises(schema) THEN "schema"
    ELSE IF iter_errors(schema, attributes) # {} THEN "attributes"
    ELSE "ok"

\* What the ValidationError raised by validate_attributes carries.
validate_attributes_detail(schema, attributes) ==
    IF validate_attributes(schema, attributes) = "attributes"
    THEN error_dict(iter_errors(schema, attributes))
    ELSE <<>>

\* ------------------------------------------------------------ _models.py

\* Product.SLUG_CONFIG = SlugConfig()
SLUG_CONFIG == [max_length |-> 100, uuid_suffix_length |-> 8]

\* Product.slug: SlugField(max_length=100)
SlugFieldMaxLength == 100

\* SlugService.ensure_base_slug_len of _models.py
ensure_base_slug_len(base, cfg) ==
    LET allowed_len == cfg.max_length - suffix_length(cfg)
        last_dash == RFind(Prefix(base, allowed_len), "-")
        truncated == Strip(IF last_dash # -1
                           THEN Prefix(base, last_dash)
                           ELSE Prefix(base, allowed_len), {"-"})
    IN  IF Len(base) > allowed_len
        THEN (IF truncated = <<>> THEN ProductLiteral ELSE truncated)
        ELSE base

\* SlugService.suffix_base_slug of _models.py
suffix_base_slug(base, token) == base \o <<"-">> \o token

\* RowsWithSlug filtering on the wrong column.
RowsWithSlug_wrong_column(table, slug) ==
    {pk \in DOMAIN table : <<table[pk].category>> = slug}

\* Product.objects.filter(slug=slug): table maps the pk of every row to the
\* row; the result is the set of pks of the rows found.
RowsWithSlug(table, slug) == {pk \in DOMAIN table : table[pk].slug = slug}

\* Product._slug_exists; self_pk = 0 stands for an instance that was never
\* saved.
Product_slug_exists(table, self_pk, slug) ==
    LET qs == RowsWithSlug(table, slug)
        excluded == IF self_pk # 0 THEN qs \ {self_pk} ELSE qs
    IN  excluded # {}

\* The while loop of Product._generate_unique_slug entered with slug: every
\* value it can leave with, over the tokens uuid4 may give.
RECURSIVE SuffixUntilFree(_, _, _, _)
SuffixUntilFree(table, self_pk, slug, digits) ==
    IF ~Product_slug_exists(table, self_pk, slug) THEN {slug}
    ELSE UNION {SuffixUntilFree(table, self_pk, suffix_base_slug(slug, token), digits) :
                    token \in TokensOver(digits, SLUG_CONFIG.uuid_suffix_length)}

\* Product._generate_unique_slug: the values it can return.
Product_generate_unique_slug(table, self_pk, name, digits) ==
    LET slug == IF slugify(name) = <<>> THEN ProductLiteral ELSE slugify(name)
    IN  SuffixUntilFree(table, self_pk, ensure_base_slug_len(slug, SLUG_CONFIG), digits)

\* The first two lines of Product.save: the slugs the instance can carry
\* after them.
ResolveSlug(table, self_pk, name, slug, digits) ==
    IF slug = <<>> \/ Product_slug_exists(table, self_pk, slug)
    THEN Product_generate_unique_slug(table, self_pk, name, digits)
    ELSE {slug}

\* _sync_categories acting on a first save only.
sync_categories_first_save_only(inst, types) ==
    LET product_type == types[inst.product_type_id]
    IN  IF inst.pk # 0 THEN inst
        ELSE [inst EXCEPT !.category = product_type.category_type,
                          !.subcategory = product_type.subcategory_type]

\* Product._sync_categories
sync_categories(inst, types) ==
    LET product_type == types[inst.product_type_id]
    IN  [inst EXCEPT
            !.category =
                IF inst.pk = 0 \/ inst.category # product_type.category_type
                THEN product_type.category_type ELSE inst.category,
            !.subcategory =
                IF inst.pk = 0 \/ inst.subcategory # product_type.subcategory_type
                THEN product_type.subcategory_type ELSE inst.subcategory]

\* The objects Product.clean walks: the instance being saved (SelfObj) and
\* the rows it reaches through variant_of, each loaded from the table; the
\* row with pk n is object n.
StoreHeap(table, inst, self_obj) ==
    LET Row(o) == o # self_obj /\ o \in DOMAIN table
    IN  [pk |-> [o \in 1..self_obj |->
                    IF o = self_obj THEN inst.pk ELSE IF Row(o) THEN o ELSE 0],
         variant_of |-> [o \in 1..self_obj |->
                    IF o = self_obj THEN inst.variant_of
                    ELSE IF Row(o) THEN table[o].variant_of ELSE 0],
         product_type_id |-> [o \in 1..self_obj |->
                    IF o = self_obj THEN inst.product_type_id
                    ELSE IF Row(o) THEN table[o].product_type_id ELSE 0]]

\* Product.clean calling validate_integrity before validate_chain.
clean_variant_checks_integrity_first(chain, heap, product) ==
    IF validate_integrity(heap, product) # "ok"
    THEN validate_integrity(heap, product)
    ELSE chain

\* The first two statements of Product.clean, validate_chain(self), whose
\* outcome is chain, and then validate_integrity(self): the error raised,
\* else "ok".
clean_variant_checks(chain, heap, product) ==
    IF chain # "ok" THEN chain ELSE validate_integrity(heap, product)

\* Product.clean: the error it raises, else "ok".  The VariantValidator and
\* SchemaValidator it calls are the ones _models.py defines, which make the
\* same tests in the same order as those of services/validators.
Product_clean(table, types, inst, self_obj) ==
    LET heap == StoreHeap(table, inst, self_obj)
        variant == clean_variant_checks(validate_chain(heap, self_obj), heap, self_obj)
        attrs == validate_attributes(types[inst.product_type_id].attributes_schema,
                                     inst.attributes)
    IN  IF variant # "ok" THEN variant ELSE attrs

\* self.full_clean(): the errors it collects from the field validators
\* (name may not be blank, slug is at most max_length long, and attributes,
\* a JSONField without blank=True, may not be the empty value {}), from
\* clean() and from the uniqueness check of slug (a filter on slug that
\* leaves the instance's own row out).
full_clean(table, types, inst, self_obj) ==
    (IF inst.name = <<>> THEN {"name_blank"} ELSE {})
    \cup (IF Len(inst.slug) > SlugFieldMaxLength THEN {"slug_too_long"} ELSE {})
    \cup (IF inst.attributes = "empty" THEN {"attributes_blank"} ELSE {})
    \cup (IF Product_clean(table, types, inst, self_obj) # "ok"
          THEN {Product_clean(table, types, inst, self_obj)} ELSE {})
    \cup (IF RowsWithSlug(table, inst.slug) \ {inst.pk} # {}
          THEN {"slug_not_unique"} ELSE {})

\* The validators Product.clean runs, all of them whatever the earlier ones said.
CleanSteps_all_run(table, types, inst, self_obj) ==
    <<"chain", "integrity", "attributes">>

\* The validators Product.clean gets to run, in the order it calls them: an
\* exception raised by one ends clean.
CleanSteps(table, types, inst, self_obj) ==
    LET heap == StoreHeap(table, inst, self_obj)
    IN  <<"chain">> \o
        (IF validate_chain(heap, self_obj) # "ok" THEN <<>>
         ELSE <<"integrity">> \o
              (IF validate_integrity(heap, self_obj) # "ok" THEN <<>>
               ELSE <<"attributes">>))

\* The steps Product.save gets to run on the instance that carries the
\* resolved slug: the slug lines, _sync_categories, then full_clean (field
\* validators, clean, uniqueness checks; full_clean runs all three and raises
\* at its end) and, when full_clean raised nothing, super().save().
SaveSteps(table, types, synced, self_obj) ==
    <<"slug", "categories", "clean_fields">>
    \o CleanSteps(table, types, synced, self_obj)
    \o <<"validate_unique">>
    \o (IF full_clean(table, types, synced, self_obj) = {} THEN <<"commit">> ELSE <<>>)

\* The row super().save() writes for the instance.
RowOf(inst) ==
    [slug |-> inst.slug, product_type_id |-> inst.product_type_id,
     variant_of |-> inst.variant_of, category |-> inst.category,
     subcategory |-> inst.subcategory]

\* The table after a save that writes the row whatever full_clean said.
TableAfterSave_always_written(table, pk, inst, errors) ==
    (pk :> RowOf(inst)) @@ table

\* The table after the last two lines of Product.save: full_clean raises when
\* it collected errors, and super().save() is reached only when it did not.
TableAfterSave(table, pk, inst, errors) ==
    IF errors = {} THEN (pk :> RowOf(inst)) @@ table ELSE table

\* ProductType.full_clean without the call of clean().
ProductType_full_clean_fields_only(row) ==
    (IF row.category_type = "" THEN {"category_type_blank"} ELSE {})
    \cup (IF row.attributes_schema = [type |-> "absent", ram |-> FALSE, dims |-> FALSE]
          THEN {"attributes_schema_blank"} ELSE {})

\* ProductType.full_clean: the errors it collects from the field validators
\* (category_type may not be blank; attributes_schema, a JSONField without
\* blank=True, may not be the empty value {}) and from clean(), which calls
\* validate_schema.  Names are taken to be set and unique.
ProductType_full_clean(row) ==
    (IF row.category_type = "" THEN {"category_type_blank"} ELSE {})
    \cup (IF row.attributes_schema = [type |-> "absent", ram |-> FALSE, dims |-> FALSE]
          THEN {"attributes_schema_blank"} ELSE {})
    \cup (IF validate_schema_raises(row.attributes_schema) THEN {"schema"} ELSE {})

\* An INSERT into a table without the unique index.
InsertRow_no_constraint(table, pk, row) ==
    [raised |-> FALSE, table |-> (pk :> row) @@ table]

\* The INSERT super().save() issues for a new instance, under the unique
\* index of slug (unique=True): the record store refuses a slug a row holds.
InsertRow(table, pk, row) ==
    IF RowsWithSlug(table, row.slug) # {}
    THEN [raised |-> TRUE, table |-> table]
    ELSE [raised |-> FALSE, table |-> (pk :> row) @@ table]

\* variant_of: on_delete=SET_NULL
DeleteRow(table, pk) ==
    [p \in DOMAIN table \ {pk} |->
        IF table[p].variant_of = pk THEN [table[p] EXCEPT !.variant_of = 0]
        ELSE table[p]]

\* ------------------------------------------------------------- models.py

\* f"{int(time.time())}-{randint(1, 1000)}": the clock readings and draws
\* taken here.
LegacyTokens == {<<"1", "7", "-", "1">>, <<"1", "7", "-", "7">>}

\* Product._slug_exists of models.py
Legacy_slug_exists(table, slug) ==
    {pk \in DOMAIN table : table[pk].slug = slug} # {}

\* Product._generate_unique_slug of models.py: the values it can return (the
\* loop draws a new suffix for base_slug until the slug is free).
Legacy_generate_unique_slug(table, name) ==
    LET base_slug == slugify(name)
    IN  IF ~Legacy_slug_exists(table, base_slug) THEN {base_slug}
        ELSE {base_slug \o <<"-">> \o token : token \in
                {t \in LegacyTokens :
                    ~Legacy_slug_exists(table, base_slug \o <<"-">> \o t)}}

\* The first two lines of Product.save of models.py.
Legacy_resolve_slug(table, name, slug) ==
    IF slug = <<>> \/ Legacy_slug_exists(table, slug)
    THEN Legacy_generate_unique_slug(table, name)
    ELSE {slug}

\* is_in_stock true for every quantity but zero.
is_in_stock_nonzero(stock_quantity) == stock_quantity # 0

\* Product.is_in_stock (models.py; _models.py has the same body)
is_in_stock(stock_quantity) == stock_quantity > 0

VARIABLES
    nPc,      \* normalisation run: "idle", "start", "based", "done", "direct"
    nName,    \* the display name (or, for a direct call, the base) drawn
    nCfg,     \* the SlugConfig drawn
    nBase,    \* the value computed so far
    gPc,      \* generate_unique_slug: "idle", "start", "probe", "returned", or
              \* "error" (RuntimeError raised after the for loop)
    gName,    \* its name argument
    gCfg,     \* the service's SlugConfig
    gTable,   \* rows [pk, slug] of the model class
    gExclude, \* its exclude_pk argument (0: None)
    gBase,    \* the generator's base
    gCand,    \* the candidate the generator yielded last
    gProbes,  \* the probes made: a sequence of [slug, found]
    gResult,  \* the value returned
    gDirect,  \* _ensure_base_slug_len(gName) called on its own: [called, value]
    cPc,      \* validator run: "idle", "start", "walking", "passed", "raised"
    cHeap,    \* the objects in memory: [pk, variant_of, product_type_id]
    cProduct, \* the object being validated
    cWalk,    \* validate_chain's locals: [parent, seen, raised]
    cIters,   \* loop iterations validate_chain has made
    cIntegrity, \* what validate_integrity did: "none" (not called), "ok" or its error
    cClean,     \* what the variant checks of Product.clean did: "none", "ok" or the error
    products, \* the Product table of _models.py: pk -> row
    nextPk,   \* the pk its next INSERT gets
    ptypes,   \* the ProductType table: id -> row
    laptops,  \* a concrete Product table of models.py: pk -> row
    lNextPk,  \* the pk its next INSERT gets
    last,     \* the last call: the instance before and after it, and how it ended
    sPc,      \* schema validator run: "idle", "run"
    sSchema,  \* the schema document passed
    sAttrs,   \* the attributes payload passed
    sLog,     \* the calls made: [fn, outcome, detail, schema] (schema: as the call left it)
    kStock,   \* a product's stock_quantity
    kThreshold, \* its stock_threshold
    kReads,   \* the reads of is_in_stock made: [stock_quantity, value]
    rPc,      \* concurrent savers: each one's position, "start", "resolved",
              \* "cleaned", "done" or "failed"
    rName,    \* the name each saver's instance carries
    rSlug,    \* the slug each saver's instance carries
    rError    \* what each saver's save raised ("" when nothing)

normVars == <<nPc, nName, nCfg, nBase>>
genVars == <<gPc, gName, gCfg, gTable, gExclude, gBase, gCand, gProbes, gResult, gDirect>>
chainVars == <<cPc, cHeap, cProduct, cWalk, cIters, cIntegrity, cClean>>
storeVars == <<products, nextPk, ptypes, laptops, lNextPk, last>>
schemaVars == <<sPc, sSchema, sAttrs, sLog>>
stockVars == <<kStock, kThreshold, kReads>>
raceVars == <<rPc, rName, rSlug, rError>>
vars == <<normVars, genVars, chainVars, storeVars, schemaVars, stockVars, raceVars>>

Names == UNION {[1..n -> NameChars] : n \in 0..MaxNameLen}

\* SlugConfig(max_length, uuid_suffix_length): any pair, those that leave no
\* room for a base included.
Configs == [max_length : 1..MaxMaxLength, uuid_suffix_length : 1..MaxUuidLen]

NormIdle ==
    /\ nPc = "idle"
    /\ nName = <<>>
    /\ nCfg = [max_length |-> 1, uuid_suffix_length |-> 0]
    /\ nBase = <<>>

GenIdle ==
    /\ gPc = "idle"
    /\ gName = <<>>
    /\ gCfg = [max_length |-> 1, uuid_suffix_length |-> 0]
    /\ gTable = {}
    /\ gExclude = 0
    /\ gBase = <<>>
    /\ gCand = <<>>
    /\ gProbes = <<>>
    /\ gResult = <<>>
    /\ gDirect = [called |-> FALSE, value |-> <<>>]

ChainIdle ==
    /\ cPc = "idle"
    /\ cHeap = <<>>
    /\ cProduct = 0
    /\ cWalk = [parent |-> 0, seen |-> {}, raised |-> FALSE]
    /\ cIters = 0
    /\ cIntegrity = "none"
    /\ cClean = "none"

NoCall ==
    [op |-> "none", model |-> "none", pk |-> 0, slug_in |-> <<>>,
     slug_out |-> <<>>, result |-> {}, steps |-> <<>>]

\* The ProductType rows the Product runs start from; each was saved through
\* ProductType.save, so its schema passes validate_schema.
\* The first has no subcategory and the schema {"type": "object"}; the others
\* require "ram".
CategoryNames == <<"cat1", "cat2", "cat3">>
SubcategoryNames == <<"", "sub2", "sub3">>
InitialTypes ==
    [t \in 1..NumTypes |->
        [category_type |-> CategoryNames[t],
         subcategory_type |-> SubcategoryNames[t],
         attributes_schema |-> IF t = 1 THEN [type |-> "object", ram |-> FALSE, dims |-> FALSE]
                               ELSE [type |-> "object", ram |-> TRUE, dims |-> FALSE]]]

StoreIdle ==
    /\ products = <<>>
    /\ nextPk = 1
    /\ ptypes = InitialTypes
    /\ laptops = <<>>
    /\ lNextPk = 1
    /\ last = NoCall

SchemaIdle ==
    /\ sPc = "idle"
    /\ sSchema = [type |-> "absent", ram |-> FALSE, dims |-> FALSE]
    /\ sAttrs = "empty"
    /\ sLog = <<>>

StockIdle ==
    /\ kStock = 0
    /\ kThreshold = 0
    /\ kReads = <<>>

RaceIdle ==
    /\ rPc = <<>>
    /\ rName = <<>>
    /\ rSlug = <<>>
    /\ rError = <<>>

\* ------------------------------------------------ normalisation runs

NormInit ==
    /\ nPc = "start"
    /\ nName \in Names
    /\ nCfg \in Configs
    /\ nBase = <<>>
    /\ GenIdle
    /\ ChainIdle
    /\ StoreIdle
    /\ SchemaIdle
    /\ StockIdle
    /\ RaceIdle

\* _make_base(name)
NormMakeBase ==
    /\ nPc = "start"
    /\ nBase' = make_base(nName)
    /\ nPc' = "based"
    /\ UNCHANGED <<nName, nCfg, genVars, chainVars, storeVars, schemaVars, stockVars, raceVars>>

\* _ensure_base_slug_len(_make_base(name))
NormEnsureLen ==
    /\ nPc = "based"
    /\ nBase' = svc_ensure_base_slug_len(nBase, nCfg)
    /\ nPc' = "done"
    /\ UNCHANGED <<nName, nCfg, genVars, chainVars, storeVars, schemaVars, stockVars, raceVars>>

\* _ensure_base_slug_len called on the drawn string itself.
NormEnsureLenDirect ==
    /\ nPc = "start"
    /\ nBase' = svc_ensure_base_slug_len(nName, nCfg)
    /\ nPc' = "direct"
    /\ UNCHANGED <<nName, nCfg, genVars, chainVars, storeVars, schemaVars, stockVars, raceVars>>

NormNext == NormMakeBase \/ NormEnsureLen \/ NormEnsureLenDirect

NormSpec == NormInit /\ [][NormNext]_vars

\* ------------------------------------------- generate_unique_slug runs

\* Longest name, most rows and most probes of a generate_unique_slug run.
MaxGenNameLen == 2
MaxGenRows == 2
MaxProbes == 4

GenNames == {n \in Names : Len(n) <= MaxGenNameLen}

\* The first candidate of a run.
GenBase(name, cfg) == svc_ensure_base_slug_len(make_base(name), cfg)

\* Every slug a run over (name, cfg) can probe.
GenCandidates(name, cfg) ==
    {GenBase(name, cfg)} \cup
    {svc_suffix_base_slug(GenBase(name, cfg), t) : t \in Tokens(cfg.uuid_suffix_length)}

\* Tables of at most MaxGenRows rows with pairwise different slugs (the slug
\* column is unique).
GenTables(slugs) ==
    {t \in SUBSET [pk : 1..MaxGenRows, slug : slugs] :
        \A r1, r2 \in t : (r1.pk = r2.pk) = (r1.slug = r2.slug)}

GenInit ==
    /\ NormIdle
    /\ ChainIdle
    /\ StoreIdle
    /\ SchemaIdle
    /\ StockIdle
    /\ RaceIdle
    /\ gPc = "start"
    /\ gName \in GenNames
    /\ gCfg \in Configs
    /\ gTable \in GenTables(GenCandidates(gName, gCfg))
    /\ gExclude \in 0..1
    /\ gBase = <<>>
    /\ gCand = <<>>
    /\ gProbes = <<>>
    /\ gResult = <<>>
    /\ gDirect = [called |-> FALSE, value |-> <<>>]

\* _generate_candidate_slugs up to its first yield.
GenFirst ==
    /\ gPc = "start"
    /\ gBase' = svc_ensure_base_slug_len(make_base(gName), gCfg)
    /\ gCand' = gBase'
    /\ gPc' = "probe"
    /\ UNCHANGED <<gName, gCfg, gTable, gExclude, gProbes, gResult, gDirect,
                   normVars, chainVars, storeVars, schemaVars, stockVars, raceVars>>

\* One iteration of the for loop of generate_unique_slug: probe the
\* candidate, return it when it is free, else take the generator's next yield.
GenProbe ==
    /\ gPc = "probe"
    /\ Len(gProbes) < MaxProbes
    /\ LET found == svc_slug_exists(gTable, gCand, gExclude)
       IN  /\ gProbes' = Append(gProbes, [slug |-> gCand, found |-> found])
           /\ IF ~found
              THEN /\ gResult' = gCand
                   /\ gPc' = "returned"
                   /\ UNCHANGED gCand
              ELSE IF GeneratorExhausted(Len(gProbes) + 1)
              THEN /\ gPc' = "error"
                   /\ UNCHANGED <<gResult, gCand>>
              ELSE /\ \E token \in Tokens(gCfg.uuid_suffix_length) :
                          gCand' = svc_suffix_base_slug(gBase, token)
                   /\ UNCHANGED <<gResult, gPc>>
    /\ UNCHANGED <<gName, gCfg, gTable, gExclude, gBase, gDirect,
                   normVars, chainVars, storeVars, schemaVars, stockVars, raceVars>>

\* _ensure_base_slug_len called on the drawn string itself.
GenEnsureDirect ==
    /\ gPc # "idle"
    /\ ~gDirect.called
    /\ gDirect' = [called |-> TRUE, value |-> svc_ensure_base_slug_len(gName, gCfg)]
    /\ UNCHANGED <<gPc, gName, gCfg, gTable, gExclude, gBase, gCand, gProbes,
                   gResult, normVars, chainVars, storeVars, schemaVars, stockVars, raceVars>>

GenNext == GenFirst \/ GenProbe \/ GenEnsureDirect

GenSpec == GenInit /\ [][GenNext]_vars

\* Calls under the two longest slug columns with one-character tokens, and
\* the call making progress: a started call computes its first candidate, and
\* the for loop goes on to its next probe.
GenLiveInit ==
    /\ GenInit
    /\ gCfg.uuid_suffix_length = 1
    /\ gCfg.max_length >= MaxMaxLength - 1

GenLiveSpec ==
    GenLiveInit /\ [][GenNext]_vars /\ WF_vars(GenFirst) /\ WF_vars(GenProbe)

\* ------------------------------------------------------ validator runs

\* Most objects in memory and largest pk among them.
MaxObjs == 3
MaxObjPk == 2

Objs == 1..MaxObjs

\* Every heap: any object may be unsaved, two objects may be copies of one
\* row, and variant_of may point anywhere (cycles included).
Heaps ==
    [pk : [Objs -> 0..MaxObjPk],
     variant_of : [Objs -> 0..MaxObjs],
     product_type_id : [Objs -> 1..NumTypes]]

ChainInit ==
    /\ NormIdle
    /\ GenIdle
    /\ StoreIdle
    /\ SchemaIdle
    /\ StockIdle
    /\ RaceIdle
    /\ cPc = "start"
    /\ cHeap \in Heaps
    /\ cProduct \in Objs
    /\ cWalk = [parent |-> 0, seen |-> {}, raised |-> FALSE]
    /\ cIters = 0
    /\ cIntegrity = "none"
    /\ cClean = "none"

\* validate_chain(product) up to its loop.
ChainBegin ==
    /\ cPc = "start"
    /\ cWalk' = ChainEnter(cHeap, cProduct)
    /\ cPc' = IF cWalk'.parent = 0 THEN "passed" ELSE "walking"
    /\ UNCHANGED <<cHeap, cProduct, cIters, cIntegrity, cClean, normVars, genVars, storeVars, schemaVars, stockVars, raceVars>>

\* One iteration of its loop, and the loop test that follows.
ChainIter ==
    /\ cPc = "walking"
    /\ cWalk' = ChainIterate(cHeap, cProduct, cWalk)
    /\ cIters' = cIters + 1
    /\ cPc' = IF cWalk'.raised THEN "raised"
              ELSE IF cWalk'.parent = 0 THEN "passed"
              ELSE "walking"
    /\ UNCHANGED <<cHeap, cProduct, cIntegrity, cClean, normVars, genVars, storeVars, schemaVars, stockVars, raceVars>>

\* validate_integrity(product), called on its own.
ChainIntegrity ==
    /\ cPc # "idle"
    /\ cIntegrity = "none"
    /\ cIntegrity' = validate_integrity(cHeap, cProduct)
    /\ UNCHANGED <<cPc, cHeap, cProduct, cWalk, cIters, cClean, normVars, genVars, storeVars, schemaVars, stockVars, raceVars>>

\* Product.clean on the product once its validate_chain call has ended: the
\* error of the chain check, else what validate_integrity says.
ChainClean ==
    /\ cPc \in {"passed", "raised"}
    /\ cClean = "none"
    /\ cClean' = clean_variant_checks(IF cPc = "raised" THEN "circular" ELSE "ok",
                                      cHeap, cProduct)
    /\ UNCHANGED <<cPc, cHeap, cProduct, cWalk, cIters, cIntegrity, normVars, genVars, storeVars, schemaVars, stockVars, raceVars>>

ChainNext == ChainBegin \/ ChainIter \/ ChainIntegrity \/ ChainClean

ChainSpec == ChainInit /\ [][ChainNext]_vars

\* ---------------------------------------------------- Product saves

\* Most Product rows ever inserted, and the length of the long display name.
MaxPk == 3
LongNameLen == 95

ShortName == <<"a">>
LongName == [i \in 1..LongNameLen |-> "a"]
StoreNames == {ShortName, LongName}

\* The slugs a caller sets on an instance before saving it.
SuppliedSlugs == {<<>>, <<"a">>}

\* What the callers of a run supply.  The variant runs vary the product type,
\* the parent and the payload; the slug runs vary the name and the slug.
VariantScope ==
    [names |-> {ShortName}, slugs |-> {<<>>}, types |-> 1..NumTypes,
     variants |-> TRUE, payloads |-> Payloads, digits |-> {"0"}]
SlugScope ==
    [names |-> StoreNames, slugs |-> SuppliedSlugs, types |-> {1},
     variants |-> FALSE, payloads |-> {"ram_int"}, digits |-> TokenDigits]

Init ==
    /\ NormIdle
    /\ GenIdle
    /\ ChainIdle
    /\ StoreIdle
    /\ SchemaIdle
    /\ StockIdle
    /\ RaceIdle

\* Product.save of _models.py on an instance with the given fields: pk = 0
\* for an instance never saved, else the pk of the row it was loaded from; the
\* parent, when set, is a row of the table; digits are the hex digits uuid4
\* draws from.
ProductSave(pk, name, slug, product_type_id, variant_of, attributes, digits) ==
    LET loaded == pk # 0
        inst0 == [pk |-> pk, name |-> name, slug |-> slug,
                  product_type_id |-> product_type_id, variant_of |-> variant_of,
                  attributes |-> attributes,
                  category |-> IF loaded THEN products[pk].category ELSE "",
                  subcategory |-> IF loaded THEN products[pk].subcategory ELSE ""]
    IN  \E resolved \in ResolveSlug(products, pk, name, slug, digits) :
            LET inst == sync_categories([inst0 EXCEPT !.slug = resolved], ptypes)
                errors == full_clean(products, ptypes, inst, MaxPk + 1)
                new_pk == IF loaded THEN pk ELSE nextPk
            IN  /\ products' = TableAfterSave(products, new_pk, inst, errors)
                /\ nextPk' = IF new_pk \in DOMAIN products' THEN Max(nextPk, new_pk + 1)
                              ELSE nextPk
                /\ last' = [op |-> "save", model |-> "_models", pk |-> pk,
                            slug_in |-> slug, slug_out |-> resolved,
                            result |-> errors,
                            steps |-> SaveSteps(products, ptypes, inst, MaxPk + 1)]

SaveNewProduct(scope) ==
    /\ nextPk <= MaxPk
    /\ \E name \in scope.names, slug \in scope.slugs, t \in scope.types,
          parent \in {0} \cup (IF scope.variants THEN DOMAIN products ELSE {}),
          attributes \in scope.payloads :
            ProductSave(0, name, slug, t, parent, attributes, scope.digits)
    /\ UNCHANGED <<ptypes, laptops, lNextPk, normVars, genVars, chainVars, schemaVars, stockVars, raceVars>>

\* Saving an instance loaded from its row: the caller may have set any field,
\* and the slug is the row's unless the caller set it.
SaveLoadedProduct(scope) ==
    /\ \E pk \in DOMAIN products, name \in scope.names, t \in scope.types,
          parent \in {0} \cup (IF scope.variants THEN DOMAIN products ELSE {}),
          attributes \in scope.payloads :
            \E slug \in scope.slugs \cup {products[pk].slug} :
                ProductSave(pk, name, slug, t, parent, attributes, scope.digits)
    /\ UNCHANGED <<ptypes, laptops, lNextPk, normVars, genVars, chainVars, schemaVars, stockVars, raceVars>>

\* Product.delete
DeleteProduct ==
    /\ \E pk \in DOMAIN products :
        /\ products' = DeleteRow(products, pk)
        /\ last' = [NoCall EXCEPT !.op = "delete", !.model = "_models", !.pk = pk]
    /\ UNCHANGED <<nextPk, ptypes, laptops, lNextPk, normVars, genVars, chainVars, schemaVars, stockVars, raceVars>>

Next ==
    \/ SaveNewProduct(VariantScope)
    \/ SaveLoadedProduct(VariantScope)
    \/ DeleteProduct

Spec == Init /\ [][Next]_vars

SlugNext ==
    \/ SaveNewProduct(SlugScope)
    \/ SaveLoadedProduct(SlugScope)
    \/ DeleteProduct

SlugSpec == Init /\ [][SlugNext]_vars

\* ------------------------------------------- Product saves of models.py

LegacyNames == {ShortName, <<"b">>}

\* Product.save of models.py on an instance of a concrete model (pk = 0: never
\* saved).
LegacySave(pk, name, slug) ==
    \E resolved \in Legacy_resolve_slug(laptops, name, slug) :
        /\ laptops' = ((IF pk # 0 THEN pk ELSE lNextPk) :> [slug |-> resolved]) @@ laptops
        /\ lNextPk' = IF pk # 0 THEN lNextPk ELSE lNextPk + 1
        /\ last' = [op |-> "save", model |-> "models", pk |-> pk,
                    slug_in |-> slug, slug_out |-> resolved, result |-> {},
                    steps |-> <<"slug", "commit">>]

SaveNewLaptop ==
    /\ lNextPk <= MaxPk
    /\ \E name \in LegacyNames, slug \in SuppliedSlugs : LegacySave(0, name, slug)
    /\ UNCHANGED <<products, nextPk, ptypes, normVars, genVars, chainVars, schemaVars, stockVars, raceVars>>

SaveLoadedLaptop ==
    /\ \E pk \in DOMAIN laptops, name \in LegacyNames :
        \E slug \in SuppliedSlugs \cup {laptops[pk].slug} : LegacySave(pk, name, slug)
    /\ UNCHANGED <<products, nextPk, ptypes, normVars, genVars, chainVars, schemaVars, stockVars, raceVars>>

DeleteLaptop ==
    /\ \E pk \in DOMAIN laptops :
        /\ laptops' = [p \in DOMAIN laptops \ {pk} |-> laptops[p]]
        /\ last' = [NoCall EXCEPT !.op = "delete", !.model = "models", !.pk = pk]
    /\ UNCHANGED <<lNextPk, products, nextPk, ptypes, normVars, genVars, chainVars, schemaVars, stockVars, raceVars>>

LegacyNext == SaveNewLaptop \/ SaveLoadedLaptop \/ DeleteLaptop

LegacySpec == Init /\ [][LegacyNext]_vars

\* ------------------------------------------------ ProductType saves

\* Most ProductType rows ever inserted.
MaxTypes == 3

\* The schemas and categories administrators submit.
TypeSchemas == {sch \in Schemas : ~sch.dims}
TypeCategories == {"", "cat1", "cat2"}

\* ProductType.save on an instance with the given fields (id = 0: never
\* saved): full_clean, then super().save() when it raised nothing.
ProductTypeSave(id, category_type, attributes_schema) ==
    LET row == [category_type |-> category_type,
                subcategory_type |-> IF id # 0 THEN ptypes[id].subcategory_type ELSE "",
                attributes_schema |-> attributes_schema]
        errors == ProductType_full_clean(row)
        new_id == IF id # 0 THEN id ELSE Len(ptypes) + 1
    IN  /\ ptypes' = IF errors # {} THEN ptypes
                     ELSE [t \in 1..Max(Len(ptypes), new_id) |->
                              IF t = new_id THEN row ELSE ptypes[t]]
        /\ last' = [NoCall EXCEPT !.op = "save", !.model = "ProductType",
                                  !.pk = id, !.result = errors]

SaveNewProductType ==
    /\ Len(ptypes) < MaxTypes
    /\ \E c \in TypeCategories, sch \in TypeSchemas : ProductTypeSave(0, c, sch)
    /\ UNCHANGED <<products, nextPk, laptops, lNextPk,
                   normVars, genVars, chainVars, schemaVars, stockVars, raceVars>>

SaveLoadedProductType ==
    /\ \E id \in DOMAIN ptypes, c \in TypeCategories, sch \in TypeSchemas :
            ProductTypeSave(id, c, sch)
    /\ UNCHANGED <<products, nextPk, laptops, lNextPk,
                   normVars, genVars, chainVars, schemaVars, stockVars, raceVars>>

TypeNext == SaveNewProductType \/ SaveLoadedProductType

TypeSpec == Init /\ [][TypeNext]_vars

\* ------------------------------------------------ reads of is_in_stock

\* Largest absolute stock_quantity, largest stock_threshold and most reads.
MaxStock == 3
MaxThreshold == 2
MaxReads == 2

\* A product held in memory; IntegerField takes any integer assigned.
StockInit ==
    /\ NormIdle
    /\ GenIdle
    /\ ChainIdle
    /\ StoreIdle
    /\ SchemaIdle
    /\ RaceIdle
    /\ kStock \in -MaxStock..MaxStock
    /\ kThreshold \in 0..MaxThreshold
    /\ kReads = <<>>

\* product.stock_quantity = q
SetStock ==
    /\ \E q \in -MaxStock..MaxStock : kStock' = q
    /\ UNCHANGED <<kThreshold, kReads,
                   normVars, genVars, chainVars, storeVars, schemaVars, raceVars>>

\* product.is_in_stock: the property reads stock_quantity and assigns nothing.
ReadIsInStock ==
    /\ Len(kReads) < MaxReads
    /\ kReads' = Append(kReads, [stock_quantity |-> kStock,
                                 value |-> is_in_stock(kStock)])
    /\ UNCHANGED <<kStock, kThreshold,
                   normVars, genVars, chainVars, storeVars, schemaVars, raceVars>>

StockNext == SetStock \/ ReadIsInStock

StockSpec == StockInit /\ [][StockNext]_vars

\* ------------------------------------------ Product saves run concurrently

\* Requests saving a new Product at the same time.
MaxSavers == 3

Savers == 1..MaxSavers
RaceNames == {ShortName, <<"b">>}

RaceInit ==
    /\ NormIdle
    /\ GenIdle
    /\ ChainIdle
    /\ StoreIdle
    /\ SchemaIdle
    /\ StockIdle
    /\ rPc = [p \in Savers |-> "start"]
    /\ rName \in [Savers -> RaceNames]
    /\ rSlug = [p \in Savers |-> <<>>]
    /\ rError = [p \in Savers |-> ""]

\* The instance saver p holds: new, of the first Product Type, no parent.
RaceInstance(p) ==
    sync_categories([pk |-> 0, name |-> rName[p], slug |-> rSlug[p],
                     product_type_id |-> 1, variant_of |-> 0,
                     attributes |-> "ram_int", category |-> "", subcategory |-> ""],
                    ptypes)

\* Product.save, its slug lines: the table is read as it stands now.
RaceResolve(p) ==
    /\ rPc[p] = "start"
    /\ \E resolved \in ResolveSlug(products, 0, rName[p], <<>>, TokenDigits) :
            rSlug' = [rSlug EXCEPT ![p] = resolved]
    /\ rPc' = [rPc EXCEPT ![p] = "resolved"]
    /\ UNCHANGED <<rName, rError, normVars, genVars, chainVars, storeVars,
                   schemaVars, stockVars>>

\* Product.save, _sync_categories and full_clean, whose uniqueness check
\* reads the table as it stands now.
RaceClean(p) ==
    /\ rPc[p] = "resolved"
    /\ LET errors == full_clean(products, ptypes, RaceInstance(p), MaxPk + 1)
       IN  /\ rPc' = [rPc EXCEPT ![p] = IF errors = {} THEN "cleaned" ELSE "failed"]
           /\ rError' = [rError EXCEPT ![p] = IF errors = {} THEN ""
                                              ELSE "ValidationError"]
    /\ UNCHANGED <<rName, rSlug, normVars, genVars, chainVars, storeVars,
                   schemaVars, stockVars>>

\* Product.save, super().save(): the INSERT, which the record store carries
\* out or refuses with IntegrityError.
RaceCommit(p) ==
    /\ rPc[p] = "cleaned"
    /\ nextPk <= MaxPk
    /\ LET done == InsertRow(products, nextPk, RowOf(RaceInstance(p)))
       IN  /\ products' = done.table
           /\ nextPk' = IF done.raised THEN nextPk ELSE nextPk + 1
           /\ rPc' = [rPc EXCEPT ![p] = IF done.raised THEN "failed" ELSE "done"]
           /\ rError' = [rError EXCEPT ![p] = IF done.raised THEN "IntegrityError"
                                              ELSE ""]
    /\ UNCHANGED <<rName, rSlug, ptypes, laptops, lNextPk, last,
                   normVars, genVars, chainVars, schemaVars, stockVars>>

RaceNext == \E p \in Savers : RaceResolve(p) \/ RaceClean(p) \/ RaceCommit(p)

RaceSpec == RaceInit /\ [][RaceNext]_vars

\* ------------------------------------------------ schema validator runs

\* Most calls made on one schema document.
MaxCalls == 3

SchemaInit ==
    /\ NormIdle
    /\ GenIdle
    /\ ChainIdle
    /\ StoreIdle
    /\ StockIdle
    /\ RaceIdle
    /\ sPc = "run"
    /\ sSchema \in Schemas
    /\ sAttrs \in Instances
    /\ sLog = <<>>

\* SchemaValidator.validate_schema(schema): it reads the document and writes
\* nothing.
CallValidateSchema ==
    /\ sPc = "run"
    /\ Len(sLog) < MaxCalls
    /\ sLog' = Append(sLog, [fn |-> "validate_schema",
                             outcome |-> IF validate_schema_raises(sSchema)
                                         THEN "schema" ELSE "ok",
                             detail |-> <<>>,
                             schema |-> sSchema])
    /\ UNCHANGED <<sPc, sSchema, sAttrs, normVars, genVars, chainVars, storeVars, stockVars, raceVars>>

\* SchemaValidator.validate_attributes(schema, attributes)
CallValidateAttributes ==
    /\ sPc = "run"
    /\ Len(sLog) < MaxCalls
    /\ sLog' = Append(sLog, [fn |-> "validate_attributes",
                             outcome |-> validate_attributes(sSchema, sAttrs),
                             detail |-> validate_attributes_detail(sSchema, sAttrs),
                             schema |-> sSchema])
    /\ UNCHANGED <<sPc, sSchema, sAttrs, normVars, genVars, chainVars, storeVars, stockVars, raceVars>>

SchemaNext == CallValidateSchema \/ CallValidateAttributes

SchemaSpec == SchemaInit /\ [][SchemaNext]_vars

\* ======================================================== properties

\* ---- C1: after any sequence of successful Product saves, every persisted
\* product whose variant_of is set has the product_type of the product it
\* references.  (Fails: saving a parent with a new product_type validates
\* the parent only, and its variants keep the old type.)
C1_VariantsShareType ==
    \A pk \in DOMAIN products :
        products[pk].variant_of # 0 =>
            /\ products[pk].variant_of \in DOMAIN products
            /\ products[products[pk].variant_of].product_type_id
                 = products[pk].product_type_id

\* ---- C2: after any sequence of sequential successful Product saves and
\* deletes the variant_of links form a forest: following variant_of from any
\* persisted product reaches a product with variant_of = null without ever
\* revisiting a product.
RECURSIVE ReachesRoot(_, _, _)
ReachesRoot(table, pk, visited) ==
    IF pk = 0 THEN TRUE
    ELSE IF pk \in visited \/ pk \notin DOMAIN table THEN FALSE
    ELSE ReachesRoot(table, table[pk].variant_of, visited \cup {pk})

C3_SlugsUnique ==
    \A p, q \in DOMAIN products :
        p # q => products[p].slug # products[q].slug

\* The last save carried a slug another row holds, was given a new one and
\* went through, beside two more rows.
C3_Witness ==
    /\ Cardinality(DOMAIN products) = MaxPk
    /\ last.op = "save"
    /\ last.result = {}
    /\ last.slug_in # <<>>
    /\ last.slug_out # last.slug_in

\* ---- C4: SlugService.generate_unique_slug returns the base unchanged after
\* exactly one probe when the existence check is false for the base; otherwise
\* what it returns is base + "-" + a token of exactly uuid_suffix_length
\* lowercase hex characters (one suffix, however many collisions there were);
\* and the existence check was false for the value returned.
HeldByOther(table, slug, exclude_pk) ==
    \E r \in table : r.slug = slug /\ ~(exclude_pk # 0 /\ r.pk = exclude_pk)

IsBasePlusToken(slug, base, n) ==
    /\ Len(slug) = Len(base) + 1 + n
    /\ SubSeq(slug, 1, Len(base)) = base
    /\ slug[Len(base) + 1] = "-"
    /\ \A i \in (Len(base) + 2)..Len(slug) : slug[i] \in HexChars

C4_BaseOrOneSuffix ==
    gPc = "returned" =>
        /\ gProbes # <<>>
        /\ gProbes[1].slug = gBase
        /\ gProbes[Len(gProbes)] = [slug |-> gResult, found |-> FALSE]
        /\ ~HeldByOther(gTable, gResult, gExclude)
        /\ IF ~HeldByOther(gTable, gBase, gExclude)
           THEN gResult = gBase /\ Len(gProbes) = 1
           ELSE IsBasePlusToken(gResult, gBase, gCfg.uuid_suffix_length)

\* The run returned a suffixed slug after the base and a first suffixed
\* candidate were both found in the table.
C4_Witness ==
    /\ gPc = "returned"
    /\ Len(gProbes) >= 3
    /\ gProbes[2].found
    /\ gResult # gBase

\* ---- C5: the slug Product.save of _models.py assigns is at most 100
\* characters long, for every name and every number of collisions met while
\* probing.  (Fails: each collision appends a suffix to the slug that already
\* carries one.)
C5_AssignedSlugFits ==
    (last.op = "save" /\ last.model = "_models") =>
        Len(last.slug_out) <= SlugFieldMaxLength

\* ---- C6: for every name and every configuration with
\* max_length - (uuid_suffix_length + 1) >= 1, the base produced before any
\* suffix is added is at most that long, is not empty, and neither starts nor
\* ends with a hyphen.
C6_BaseWithinAllowed ==
    LET allowed == nCfg.max_length - (nCfg.uuid_suffix_length + 1)
    IN  (nPc = "done" /\ allowed >= 1) =>
            /\ Len(nBase) <= allowed
            /\ nBase # <<>>
            /\ nBase[1] # "-"
            /\ nBase[Len(nBase)] # "-"

\* The normalised name was longer than allowed, held a hyphen within the
\* allowed length, and was cut there.
C6_Witness ==
    LET allowed == nCfg.max_length - (nCfg.uuid_suffix_length + 1)
    IN  /\ nPc = "done"
        /\ allowed >= 1
        /\ Len(slugify(nName)) > allowed
        /\ \E i \in 1..allowed : slugify(nName)[i] = "-"
        /\ Len(nBase) < allowed

\* ---- C7 as stated: whenever normalising the name yields the empty string,
\* and whenever truncation leaves an empty string, the base is the literal
\* "product"; generate_unique_slug never probes or returns an empty slug.
\* (Fails in its first part: the default is itself cut to the allowed length.)
TruncationLeavesNothing(base, cfg) ==
    LET allowed == cfg.max_length - (cfg.uuid_suffix_length + 1)
        head == Prefix(base, allowed)
    IN  /\ Len(base) > allowed
        /\ \/ head = <<>>
           \/ \E i \in 1..Len(head) :
                /\ head[i] = "-"
                /\ \A j \in 1..Len(head) : (j < i => head[j] = "-") /\ (j > i => head[j] # "-")

NeverEmptySlug ==
    /\ \A i \in 1..Len(gProbes) : gProbes[i].slug # <<>>
    /\ gPc = "returned" => gResult # <<>>
    /\ (gDirect.called /\ TruncationLeavesNothing(gName, gCfg)) =>
            gDirect.value = ProductLiteral

C7_BaseIsProductLiteral ==
    /\ NeverEmptySlug
    /\ (gPc \in {"probe", "returned"} /\ slugify(gName) = <<>>) =>
            gBase = ProductLiteral

\* ---- C7, amended: when normalising the name yields the empty string the
\* base is "product" cut to the allowed length (the literal itself when it
\* fits or when the cut leaves nothing); when truncation leaves an empty
\* string the result is the literal "product"; generate_unique_slug never
\* probes or returns an empty slug.
C7_BaseIsProductCut ==
    /\ NeverEmptySlug
    /\ (gPc \in {"probe", "returned"} /\ slugify(gName) = <<>>) =>
            LET allowed == gCfg.max_length - (gCfg.uuid_suffix_length + 1)
                cut == Prefix(ProductLiteral, allowed)
            IN  gBase = IF allowed >= Len(ProductLiteral) \/ cut = <<>>
                        THEN ProductLiteral ELSE cut

\* A name of punctuation gave a cut default that was found in the table, a
\* suffixed slug was returned, and the direct truncation of the name left
\* nothing.
C7_Witness ==
    /\ gPc = "returned"
    /\ gName # <<>>
    /\ slugify(gName) = <<>>
    /\ gBase # ProductLiteral
    /\ gResult # gBase
    /\ gDirect.called
    /\ TruncationLeavesNothing(gName, gCfg)
    /\ gDirect.value = ProductLiteral

\* ---- C8: Product.save (models.py and _models.py) recomputes the slug only
\* when the product has no slug or its slug is held by a different record:
\* saving a persisted product whose slug no other record uses leaves the slug
\* as it was.  (Fails for models.py: its existence check counts the product's
\* own row.)
TableOf(model) == IF model = "models" THEN laptops ELSE products

C8_SlugKeptUnlessTaken ==
    [][(/\ last'.op = "save"
        /\ last'.pk # 0
        /\ last'.slug_in # <<>>
        /\ \A other \in DOMAIN TableOf(last'.model) \ {last'.pk} :
                TableOf(last'.model)[other].slug # last'.slug_in)
       => last'.slug_out = last'.slug_in]_vars

\* ---- C9: validate_chain terminates on every finite variant_of graph, and
\* raises the circular-variant error exactly when the walk product.variant_of,
\* variant_of.variant_of, ... revisits the starting product or a node already
\* visited; a chain that reaches null without a repeat raises nothing.
RECURSIVE WalkObj(_, _, _)
WalkObj(heap, product, i) ==
    IF i = 0 THEN product
    ELSE IF WalkObj(heap, product, i - 1) = 0 THEN 0
    ELSE heap.variant_of[WalkObj(heap, product, i - 1)]

WalkRepeats(heap, product) ==
    \E i, j \in 0..Len(heap.pk) :
        /\ i < j
        /\ WalkObj(heap, product, j) # 0
        /\ KeyOf(heap, WalkObj(heap, product, i)) = KeyOf(heap, WalkObj(heap, product, j))

C9_ChainRaisesOnRepeat ==
    /\ cPc = "walking" => cIters < MaxObjs
    /\ cPc = "raised" => WalkRepeats(cHeap, cProduct)
    /\ cPc = "passed" => ~WalkRepeats(cHeap, cProduct)

\* A->B->C->A over three rows, and the walk from one of them raised on
\* coming back to it.
C9_Witness ==
    /\ cPc = "raised"
    /\ cIters = MaxObjs
    /\ \A o \in Objs : cHeap.variant_of[o] = (o % MaxObjs) + 1
    /\ \A o, q \in Objs : o # q => KeyOf(cHeap, o) # KeyOf(cHeap, q)
    /\ \E o \in Objs : cHeap.pk[o] # 0

\* ---- C10: validate_integrity raises the self-variant error for a persisted
\* product whose variant_of has the product's identifier, and raises it only
\* when both the product and its parent have stable identifiers.
C10_SelfVariant ==
    cIntegrity # "none" =>
        LET parent == cHeap.variant_of[cProduct]
        IN  /\ (/\ cHeap.pk[cProduct] # 0
                /\ parent # 0
                /\ cHeap.pk[parent] = cHeap.pk[cProduct])
               => cIntegrity = "self_variant"
            /\ cIntegrity = "self_variant" =>
                    /\ parent # 0
                    /\ cHeap.pk[cProduct] # 0
                    /\ cHeap.pk[parent] # 0
                    /\ cHeap.pk[parent] = cHeap.pk[cProduct]

\* The parent is another copy of the product's own row, of another type, and
\* the self-variant error was raised.
C10_Witness ==
    /\ cIntegrity = "self_variant"
    /\ cHeap.variant_of[cProduct] # 0
    /\ cHeap.variant_of[cProduct] # cProduct
    /\ cHeap.product_type_id[cHeap.variant_of[cProduct]] # cHeap.product_type_id[cProduct]

\* ---- C11 as stated: validate_integrity raises the type-mismatch error
\* whenever variant_of is set and the parent's product_type differs from the
\* product's, persisted or not; with variant_of unset, or with equal types and
\* distinct identifiers, it raises nothing.  (Fails in its first part: for two
\* copies of one row of different types the self-variant error comes first.)
IntegrityQuiet ==
    LET parent == cHeap.variant_of[cProduct]
    IN  /\ parent = 0 => cIntegrity = "ok"
        /\ (/\ parent # 0
            /\ cHeap.product_type_id[parent] = cHeap.product_type_id[cProduct]
            /\ KeyOf(cHeap, parent) # KeyOf(cHeap, cProduct))
           => cIntegrity = "ok"

C11_TypeMismatchAlways ==
    cIntegrity # "none" =>
        LET parent == cHeap.variant_of[cProduct]
        IN  /\ IntegrityQuiet
            /\ (/\ parent # 0
                /\ cHeap.product_type_id[parent] # cHeap.product_type_id[cProduct])
               => cIntegrity = "type_mismatch"

\* ---- C11, amended: validate_integrity raises the type-mismatch error
\* whenever variant_of is set, the parent's product_type differs from the
\* product's and the two are not persisted under one identifier (where the
\* self-variant error is raised instead), persisted or not; with variant_of
\* unset, or with equal types and distinct identifiers, it raises nothing.
C11_TypeMismatchUnlessSelf ==
    cIntegrity # "none" =>
        LET parent == cHeap.variant_of[cProduct]
        IN  /\ IntegrityQuiet
            /\ (/\ parent # 0
                /\ cHeap.product_type_id[parent] # cHeap.product_type_id[cProduct]
                /\ ~(cHeap.pk[cProduct] # 0 /\ cHeap.pk[cProduct] = cHeap.pk[parent]))
               => cIntegrity = "type_mismatch"
            /\ cIntegrity = "type_mismatch" =>
                    /\ parent # 0
                    /\ cHeap.product_type_id[parent] # cHeap.product_type_id[cProduct]

\* Neither the product nor its parent was ever saved, their types differ, and
\* the type-mismatch error was raised.
C11_Witness ==
    /\ cIntegrity = "type_mismatch"
    /\ cHeap.variant_of[cProduct] # 0
    /\ cHeap.pk[cProduct] = 0
    /\ cHeap.pk[cHeap.variant_of[cProduct]] = 0

\* ---- C12: within one Product save the steps run strictly in the order slug
\* resolution, category/subcategory denormalisation, variant-chain check,
\* variant-integrity check, attribute-schema validation, commit; a step runs
\* only if every earlier one succeeded, so after a failed variant check
\* neither the attribute validation nor the commit is reached.
StepOrder == <<"slug", "categories", "chain", "integrity", "attributes", "commit">>

IsOrderedStep(step) == \E i \in 1..Len(StepOrder) : StepOrder[i] = step

OrderedSteps(steps) == SelectSeq(steps, IsOrderedStep)

StepsReachedAre(n) == OrderedSteps(last.steps) = SubSeq(StepOrder, 1, n)

C12_StepsInOrder ==
    (last.op = "save" /\ last.model = "_models") =>
        /\ \E n \in 2..Len(StepOrder) : StepsReachedAre(n)
        /\ "circular" \in last.result => StepsReachedAre(3)
        /\ (last.result \cap {"self_variant", "type_mismatch"}) # {} => StepsReachedAre(4)
        /\ (last.result \cap {"schema", "attributes"}) # {} => StepsReachedAre(5)
        /\ StepsReachedAre(6) => last.result = {}

\* The last save had a parent of another type, and stopped at the variant-
\* integrity check with a payload its own type's schema would have refused.
C12_Witness ==
    /\ last.op = "save"
    /\ "type_mismatch" \in last.result
    /\ StepsReachedAre(4)
    /\ Cardinality(DOMAIN products) >= 2

\* ---- C13: when a validation step of Product.save fails (circular variant,
\* self variant, type mismatch, invalid schema, non-conforming attributes) the
\* error is raised from the save call and the record store is left exactly as
\* it was: no product is created and no field of an existing one is written.
C13_FailedSaveWritesNothing ==
    [][(last'.op = "save" /\ last'.model = "_models" /\ last'.result # {})
       => /\ products' = products
          /\ nextPk' = nextPk
          /\ ptypes' = ptypes]_vars

\* The last save, of a loaded product with a new type and a parent that made
\* a cycle, raised, beside two more rows.
C13_Witness ==
    /\ last.op = "save"
    /\ last.pk # 0
    /\ "circular" \in last.result
    /\ products[last.pk].variant_of = 0
    /\ Cardinality(DOMAIN products) = MaxPk

\* ---- C14: immediately after every successful Product save, first save or
\* update, an update that changes the product_type included, the product's
\* cached _category and _subcategory are the category_type and
\* subcategory_type of the Product Type it references at that moment.
SavedPk == IF last.pk # 0 THEN last.pk ELSE nextPk - 1

C14_CategoriesFollowType ==
    (last.op = "save" /\ last.model = "_models" /\ last.result = {}) =>
        LET row == products[SavedPk]
        IN  /\ row.category = ptypes[row.product_type_id].category_type
            /\ row.subcategory = ptypes[row.product_type_id].subcategory_type

\* The last save was an update of a product that has a variant of another
\* type (its own type was changed after the variant was saved), and it
\* carries the categories of its new type.
C14_Witness ==
    /\ last.op = "save"
    /\ last.pk # 0
    /\ last.result = {}
    /\ products[last.pk].category = CategoryNames[NumTypes]
    /\ products[last.pk].subcategory = SubcategoryNames[NumTypes]
    /\ \E child \in DOMAIN products :
            /\ products[child].variant_of = last.pk
            /\ products[child].product_type_id # products[last.pk].product_type_id

\* ---- C15: validate_schema fails exactly when the document is not a
\* structurally valid schema or its top-level type is present and is not
\* "object"; for every well-formed schema with no top-level type or with type
\* "object" (the empty schema {} included) it succeeds, leaves the schema
\* unmodified, and repeated calls give the same outcome.
WellFormed(schema) == schema.type \notin {"bogus", "empty_string"}

SchemaAccepted(schema) ==
    WellFormed(schema) /\ (schema.type = "absent" \/ schema.type = "object")

C15_ValidateSchema ==
    \A i \in 1..Len(sLog) :
        sLog[i].fn = "validate_schema" =>
            /\ (sLog[i].outcome = "schema") = ~SchemaAccepted(sSchema)
            /\ (sLog[i].outcome = "ok") = SchemaAccepted(sSchema)
            /\ sLog[i].schema = sSchema
            /\ \A j \in 1..Len(sLog) :
                    sLog[j].fn = "validate_schema" => sLog[j].outcome = sLog[i].outcome

\* The empty schema {} was validated MaxCalls times and accepted each time.
C15_Witness ==
    /\ Len(sLog) = MaxCalls
    /\ sSchema = [type |-> "absent", ram |-> FALSE, dims |-> FALSE]
    /\ \A i \in 1..Len(sLog) : sLog[i].fn = "validate_schema" /\ sLog[i].outcome = "ok"

\* ---- C16: validate_attributes checks the schema before it looks at the
\* instance: with a schema validate_schema rejects it fails with the schema
\* error for every instance; with an accepted schema it succeeds exactly when
\* the instance has no violation, and otherwise fails with an attributes
\* error that holds every violation message under the dotted path of the
\* offending key, "__all__" for violations of the document itself.
DottedPath(path) ==
    CASE path = <<>> -> "__all__"
      [] path = <<"ram">> -> "ram"
      [] path = <<"dims", "w">> -> "dims.w"

HoldsEveryViolation(detail, violations) ==
    /\ DOMAIN detail = {DottedPath(v.path) : v \in violations}
    /\ \A v \in violations : v.message \in detail[DottedPath(v.path)]
    /\ \A field \in DOMAIN detail : \A m \in detail[field] :
            \E v \in violations : DottedPath(v.path) = field /\ v.message = m

C16_SchemaBeforeInstance ==
    \A i \in 1..Len(sLog) :
        sLog[i].fn = "validate_attributes" =>
            IF ~SchemaAccepted(sSchema) THEN sLog[i].outcome = "schema"
            ELSE IF iter_errors(sSchema, sAttrs) = {} THEN sLog[i].outcome = "ok"
            ELSE /\ sLog[i].outcome = "attributes"
                 /\ HoldsEveryViolation(sLog[i].detail, iter_errors(sSchema, sAttrs))

\* A payload with a wrong value at the top and one in a nested object failed
\* with both messages, one under "ram" and one under "dims.w".
C16_Witness ==
    /\ sLog # <<>>
    /\ sLog[Len(sLog)].fn = "validate_attributes"
    /\ sLog[Len(sLog)].outcome = "attributes"
    /\ DOMAIN sLog[Len(sLog)].detail = {"ram", "dims.w"}

\* ---- C17: every ProductType save validates the schema first, so after any
\* sequence of ProductType saves every persisted Product Type has a
\* structurally valid attributes_schema whose top-level type is absent or
\* "object"; a save with a rejected schema persists nothing.
C17_PersistedSchemasValid ==
    /\ [](\A id \in DOMAIN ptypes : SchemaAccepted(ptypes[id].attributes_schema))
    /\ [][(last'.op = "save" /\ last'.model = "ProductType" /\ "schema" \in last'.result)
          => ptypes' = ptypes]_vars

\* The last save, of a loaded Product Type with a schema of top-level type
\* "array", was refused, beside MaxTypes rows with accepted schemas.
C17_Witness ==
    /\ Len(ptypes) = MaxTypes
    /\ last.op = "save"
    /\ last.model = "ProductType"
    /\ last.pk # 0
    /\ last.result = {"schema"}
    /\ \E id \in DOMAIN ptypes : ptypes[id].attributes_schema.ram

\* ---- C18: for every product, is_in_stock is true exactly when
\* stock_quantity is greater than zero (false for zero and for negative
\* quantities), and reading it changes no field of the product.
C18_InStockIffPositive ==
    /\ [](\A i \in 1..Len(kReads) :
            /\ kReads[i].value = (kReads[i].stock_quantity >= 1)
            /\ kReads[i].stock_quantity <= 0 => kReads[i].value = FALSE)
    /\ [][kReads' # kReads => (kStock' = kStock /\ kThreshold' = kThreshold)]_vars

\* is_in_stock was read at a negative quantity and then at a positive one,
\* and gave FALSE and TRUE.
C18_Witness ==
    /\ Len(kReads) = 2
    /\ kReads[1].stock_quantity < 0
    /\ kReads[1].value = FALSE
    /\ kReads[2].stock_quantity > 0
    /\ kReads[2].value = TRUE

\* ---- C19: when two Product saves with the same name interleave, both can
\* see that the base slug does not exist and both then try to commit that
\* slug; the pre-check does not exclude this, and only the uniqueness
\* constraint the record store applies at commit keeps two persisted
\* products from sharing a slug.
C19_StoreKeepsSlugsUnique ==
    /\ \A x, y \in DOMAIN products : x # y => products[x].slug # products[y].slug
    /\ \A p \in DOMAIN rPc :
            (rPc[p] = "failed" /\ rError[p] = "IntegrityError") =>
                \E x \in DOMAIN products : products[x].slug = rSlug[p]

\* Two savers with one name both passed their checks with the bare base slug;
\* one committed it and the other was refused by the record store.
C19_Witness ==
    \E p, q \in DOMAIN rPc :
        /\ p # q
        /\ rName[p] = rName[q]
        /\ rSlug[p] = slugify(rName[p])
        /\ rSlug[q] = rSlug[p]
        /\ rPc[p] = "done"
        /\ rPc[q] = "failed"
        /\ rError[q] = "IntegrityError"

\* ---- C20: SlugService.generate_unique_slug has no retry cap: for every n,
\* if the existence check is true for the first n candidates and false for
\* candidate n + 1, it returns candidate n + 1 after exactly n + 1 probes; it
\* stops at the first candidate the check is false for, and never ends with
\* the "Failed to generate unique slug" error.
ProbesSoFarAgree ==
    /\ gPc # "error"
    /\ \A i \in 1..Len(gProbes) :
            IF gProbes[i].found
            THEN i < Len(gProbes) \/ gPc = "probe"
            ELSE i = Len(gProbes) /\ gPc = "returned" /\ gResult = gProbes[i].slug
    /\ gPc = "returned" => gProbes # <<>> /\ ~gProbes[Len(gProbes)].found

CandidateIsFree ==
    /\ gPc = "probe"
    /\ Len(gProbes) < MaxProbes
    /\ ~HeldByOther(gTable, gCand, gExclude)

C20_NoRetryCap ==
    /\ []ProbesSoFarAgree
    /\ CandidateIsFree ~> (gPc = "returned" /\ gResult = gCand)

\* The check was true for the base and for MaxProbes - 2 suffixed candidates
\* (more than the table has rows: a token came twice), and the next one was
\* returned.
C20_Witness ==
    /\ gPc = "returned"
    /\ Len(gProbes) = MaxProbes
    /\ Len(gProbes) > Cardinality(gTable) + 1
    /\ \A i \in 1..(Len(gProbes) - 1) : gProbes[i].found

\* The position of the last hyphen among the first n characters of base, 0
\* when there is none.
LastHyphenWithin(base, n) ==
    LET at == {i \in 1..Min(n, Len(base)) : base[i] = "-"}
    IN  IF at = {} THEN 0 ELSE CHOOSE i \in at : \A j \in at : j <= i

\* cut is the first characters of base: up to the last hyphen within the
\* allowed length, that hyphen left out, when there is one, and the allowed
\* length of them when there is none.
CutOf(base, allowed, cut) ==
    LET dash == LastHyphenWithin(base, allowed)
    IN  /\ Len(cut) <= Len(base)
        /\ \A i \in 1..Len(cut) : cut[i] = base[i]
        /\ IF dash # 0
           THEN /\ Len(cut) = dash - 1
                /\ cut # <<>>
                /\ cut[Len(cut)] # "-"
           ELSE Len(cut) = allowed

\* ---- C21 as stated: for every name and every configuration, a normalized
\* base longer than the allowed length comes back cut at the last hyphen
\* within the allowed length, or hard-cut at the allowed length when there is
\* no such hyphen, and a base that fits comes back unchanged.  (Fails for the
\* configurations that leave no room for a base: the cut leaves nothing and
\* "product" is returned.)
C21_CutIsPrefix ==
    LET allowed == nCfg.max_length - (nCfg.uuid_suffix_length + 1)
        base == make_base(nName)
    IN  nPc = "done" =>
            IF Len(base) > allowed
            THEN CutOf(base, allowed, nBase)
            ELSE nBase = base

\* ---- C21: for every name and every configuration with
\* max_length - (uuid_suffix_length + 1) >= 1, a normalized base longer than
\* the allowed length comes back cut at the last hyphen within the allowed
\* length (ending at a word boundary), or hard-cut at the allowed length when
\* there is no such hyphen, and a base that fits comes back unchanged.
C21_CutIsPrefixWithRoom ==
    LET allowed == nCfg.max_length - (nCfg.uuid_suffix_length + 1)
        base == make_base(nName)
    IN  (nPc = "done" /\ allowed >= 1) =>
            IF Len(base) > allowed
            THEN CutOf(base, allowed, nBase)
            ELSE nBase = base

\* A base of two words was too long and the whole first word was kept, though
\* more characters were allowed.
C21_Witness ==
    LET allowed == nCfg.max_length - (nCfg.uuid_suffix_length + 1)
        base == make_base(nName)
        dash == LastHyphenWithin(base, allowed)
    IN  /\ nPc = "done"
        /\ allowed >= 1
        /\ Len(base) > allowed
        /\ dash # 0
        /\ dash < allowed
        /\ nBase = SubSeq(base, 1, dash - 1)
        /\ base[Len(nBase) + 1] = "-"

\* The test of validate_integrity for a self-variant: the product and its
\* parent are both persisted and carry the same identifier.
SelfVariantCondition ==
    LET parent == cHeap.variant_of[cProduct]
    IN  /\ parent # 0
        /\ cHeap.pk[cProduct] # 0
        /\ cHeap.pk[parent] # 0
        /\ cHeap.pk[cProduct] = cHeap.pk[parent]

\* The product's parent is the product: the same object, saved or not, or
\* another copy of its row.
ReferencesItself ==
    \/ cHeap.variant_of[cProduct] = cProduct
    \/ SelfVariantCondition

\* ---- C22: whenever validate_chain passes for a product, the self-variant
\* test of validate_integrity is false for it, and validate_integrity run
\* after it does not raise the self-variant error; Product.clean, which runs
\* validate_chain first, rejects a product that references itself with the
\* circular-variant error and never reports the self-variant error.
C22_ChainShadowsSelfVariant ==
    /\ cPc = "passed" =>
            /\ ~SelfVariantCondition
            /\ cIntegrity # "self_variant"
    /\ cClean # "self_variant"
    /\ (cClean # "none" /\ ReferencesItself) => cClean = "circular"
    /\ (cClean # "none" /\ cPc = "passed" /\ cIntegrity # "none") =>
            cClean = cIntegrity

\* A persisted product whose parent is a copy of its own row: called on its
\* own validate_integrity raises the self-variant error, validate_chain
\* raised on its first iteration, and Product.clean reported the cycle.
C22_Witness ==
    /\ SelfVariantCondition
    /\ cHeap.variant_of[cProduct] # cProduct
    /\ cIntegrity = "self_variant"
    /\ cPc = "raised"
    /\ cIters = 1
    /\ cClean = "circular"

====
